---- MODULE Spec2Model ----
(***************************************************************************)
(* QGhostBusters, src/Units/ghosts.py: a quantum ghost (QGhost) owns an    *)
(* ordered list of visible parts (Ghost instances) and a quantum state.    *)
(* Every frame the parts move, then QGhost.update lets the parts interact  *)
(* with the splitters and attack the player.                               *)
(*                                                                         *)
(* Vectors are pairs <<x, y>> of integers (cell units).  List indices are  *)
(* the code's 0-based indices; Part(parts, i) reads visible_parts[i].      *)
(* Amplitudes are exact numbers (p + q*sqrt(2)) / AmpScale, stored <<p,q>>.*)
(* Probabilities and random draws are in units of 1 / ProbScale.           *)
(***************************************************************************)
EXTENDS Integers, Sequences, FiniteSets, TLC

VARIABLES
    splitters,      \* QGhost.splitters: list of [position, splitterType]
    visible_parts,  \* QGhost.visible_parts: list of [id, position, last_move]
    quantum_state,  \* QGhost.quantum_state: amplitude of every allocated slot
    render_group,   \* ids of the parts registered with the render group
    health,         \* player.health
    sounds,         \* number of calls of sound_manager.play_attack_sound
    moves,          \* number of Ghost.update calls so far
    last            \* the last call: its inputs, its pre-state and its events

vars == <<splitters, visible_parts, quantum_state, render_group, health,
          sounds, moves, last>>

----------------------------------------------------------------------------
(* Settings and bounds                                                     *)

MAX_GHOSTS_PER_STATE == 2
GHOST_ATTACK_RADIUS == 1
PROB_GHOST_ATTACK == 50
GHOST_SPEED == 50
RTOL == 1000000
ATOL == 1

AmpScale == 16 * 16
ProbScale == 10 * 10
TolScale == 10000 * 10000

MaxMoves == 3
MaxHealth == 2

WorldSize == <<103, 3>>

DIR_DICT == [L |-> <<-1, 0>>, R |-> <<1, 0>>, D |-> <<0, -1>>, U |-> <<0, 1>>]

NoVector == <<>>

\* np.random.random() returns a float of [0.0, 1.0)
Draws == {0, 50, 99}

SpeedDraws == {0, 99}

\* one pass at most doubles the parts for every splitter of the list
MaxParts == MAX_GHOSTS_PER_STATE * 2 * 2

PlayerPositions == {<<1, 1>>, <<50, 1>>}

StartPositions == {<<1, 1>>, <<2, 1>>, <<101, 1>>}

SplitterLists ==
    { << [position |-> <<1, 1>>, splitterType |-> "45"] >>,
      << [position |-> <<1, 1>>, splitterType |-> "45"],
         [position |-> <<1, 1>>, splitterType |-> "90"] >>,
      << [position |-> <<1, 1>>, splitterType |-> "90"],
         [position |-> <<1, 1>>, splitterType |-> "45"] >>,
      << [position |-> <<99, 1>>, splitterType |-> "45"] >> }

----------------------------------------------------------------------------
(* Vectors                                                                 *)

Abs(n) == IF n < 0 THEN -n ELSE n

VecAdd(a, b) == <<a[1] + b[1], a[2] + b[2]>>

VecScale(k, a) == <<k * a[1], k * a[2]>>

\* bool(Vector2): a zero vector is falsy, and so is None
Truthy(v) == v # NoVector /\ v # <<0, 0>>

\* np.allclose(a, b, rtol): elementwise |a - b| <= atol + rtol * |b|,
\* with rtol = 1e-2 and the default atol = 1e-8, in units of 1 / TolScale
\* (the coordinates are integers, so the bound is rounded down)
allclose(a, b) ==
    \A c \in 1..2 : Abs(a[c] - b[c]) <= (ATOL + RTOL * Abs(b[c])) \div TolScale

----------------------------------------------------------------------------
(* Ghost                                                                   *)

\* Ghost.__init__: last_move falls back to Vector2(-1, 0)
GhostInit(id, position, last_move) ==
    [id |-> id, position |-> position,
     last_move |-> IF Truthy(last_move) THEN last_move ELSE <<-1, 0>>]

InWorld(p) ==
    /\ p[1] >= 0 /\ p[1] < WorldSize[1]
    /\ p[2] >= 0 /\ p[2] < WorldSize[2]

\* Unit.update(moveVector): step by moveVector, staying inside the world
UnitUpdate(position, moveVector) ==
    IF InWorld(VecAdd(position, moveVector))
    THEN VecAdd(position, moveVector)
    ELSE position

Part(parts, i) == parts[i + 1]

----------------------------------------------------------------------------
(* Quantum state: one amplitude per allocated slot, slot i for part i      *)

AmpZero == <<0, 0>>

AmpOne == <<AmpScale, 0>>

AmpAdd(a, b) == <<a[1] + b[1], a[2] + b[2]>>

\* (p + q*sqrt(2)) / sqrt(2) = q + (p/2)*sqrt(2)
DivSqrt2(a) == <<a[2], a[1] \div 2>>

Amp(qs, i) == IF i >= 0 /\ i < Len(qs) THEN qs[i + 1] ELSE AmpZero

RemoveSlot(qs, j) ==
    [n \in 1..(Len(qs) - 1) |-> IF n < j + 1 THEN qs[n] ELSE qs[n + 1]]

\* ket([1], MAX_GHOSTS_PER_STATE): the whole amplitude in slot 0
InitialState == <<AmpOne>>

\* beam_splitter(quantum_state, i): Split(i).  The amplitude of slot i is
\* multiplied by 1/sqrt(2) and the other 1/sqrt(2) of it goes to a newly
\* allocated slot at the end.
Split(qs, i) ==
    Append([n \in 1..Len(qs) |-> IF n = i + 1 THEN DivSqrt2(qs[n]) ELSE qs[n]],
           DivSqrt2(Amp(qs, i)))

\* beam_splitter(quantum_state, i, j): Merge(i, j).  The adjoint beam splitter
\* brings the amplitudes of slots i and j back to slot i, slot j is freed and
\* the slots above it move down.  It acts on two distinct allocated slots.
Merge(qs, i, j) ==
    IF i = j \/ i < 0 \/ j < 0 \/ i >= Len(qs) \/ j >= Len(qs)
    THEN qs
    ELSE RemoveSlot([qs EXCEPT ![i + 1] = DivSqrt2(AmpAdd(qs[i + 1], qs[j + 1]))], j)

\* |a|^2 in units of 1 / AmpScale^2 (sqrt(2) taken as 1.414)
AmpSq(a) == a[1] * a[1] + 2 * a[2] * a[2] + (2 * a[1] * a[2] * 1414) \div 1000

RECURSIVE SqrtIter(_, _, _)
SqrtIter(n, lo, hi) ==
    IF lo >= hi THEN lo
    ELSE LET mid == (lo + hi + 1) \div 2
         IN  IF mid * mid <= n THEN SqrtIter(n, mid, hi)
             ELSE SqrtIter(n, lo, mid - 1)

\* floor of the square root
ISqrt(n) == SqrtIter(n, 0, 2 * ProbScale)

RECURSIVE NotHereSq(_, _, _)
\* squared norm of the state with slot i projected on "no ghost here"
NotHereSq(qs, i, k) ==
    IF k >= Len(qs) THEN 0
    ELSE (IF k = i THEN 0 ELSE AmpSq(qs[k + 1])) + NotHereSq(qs, i, k + 1)

\* (tensor([<0| if g == i else 1 ...]) * quantum_state).norm()
p_not_here(qs, i) ==
    ISqrt((NotHereSq(qs, i, 0) * ProbScale * ProbScale) \div (AmpScale * AmpScale))

----------------------------------------------------------------------------
(* Helpers of src/Units/utils.py                                           *)

ComplementaryPairs(splitterType) ==
    IF splitterType = "45"
    THEN {{DIR_DICT.U, DIR_DICT.R}, {DIR_DICT.D, DIR_DICT.L}}
    ELSE {{DIR_DICT.U, DIR_DICT.D}, {DIR_DICT.L, DIR_DICT.R}}

\* a function of the two last moves and the splitter type only
two_ghost_coming_from_different_sides_of_splitter(g1, g2, splitterType) ==
    {g1.last_move, g2.last_move} \in ComplementaryPairs(splitterType)

is_in_attack_radius(p, g, radius) ==
    (p[1] - g[1]) * (p[1] - g[1]) + (p[2] - g[2]) * (p[2] - g[2])
        <= radius * radius

----------------------------------------------------------------------------
(* QGhost                                                                  *)

\* add_visible_ghost putting the new part first
add_visible_ghost_front(st, start_position, last_move) ==
    LET ghost == GhostInit(Len(st.parts) + 1, start_position, last_move)
    IN  [st EXCEPT !.parts = <<ghost>> \o st.parts,
                   !.render = st.render \cup {ghost.id}]

\* QGhost.add_visible_ghost on the pass state st
add_visible_ghost(st, start_position, last_move) ==
    LET ghost == GhostInit(Len(st.parts) + 1, start_position, last_move)
    IN  [st EXCEPT !.parts = Append(st.parts, ghost),
                   !.render = st.render \cup {ghost.id}]

\* the axis swap without the sign of the "45" splitter
SplitLastMove_unsigned(last_move, splitterType) ==
    <<last_move[2], last_move[1]>>

\* the direction given to the new part of a Split
SplitLastMove(last_move, splitterType) ==
    VecScale(IF splitterType = "45" THEN -1 ELSE 1,
             <<last_move[2], last_move[1]>>)

\* what one Split or Merge did: slots are the indices handed to beam_splitter,
\* marked the indices it added to seen
Event(kind, s, i, j, slots, marked, before, after) ==
    [kind |-> kind, splitter |-> s, i |-> i, j |-> j,
     slots |-> slots, marked |-> marked, seen_before |-> before.seen,
     parts_before |-> before.parts, parts_after |-> after.parts,
     qs_before |-> before.qs, qs_after |-> after.qs,
     render_before |-> before.render, render_after |-> after.render]

\* lines 159-161: one coincidence of this_ghost with visible_parts[i + j]
MergeBranch(st, s, i, j) ==
    LET slots == <<i, j>>
        marked == {i, i + j}
        next == [st EXCEPT !.is_coincidence = TRUE,
                           !.qs = Merge(st.qs, slots[1], slots[2]),
                           !.seen = st.seen \cup marked]
    IN  [next EXCEPT !.events =
             Append(st.events, Event("merge", s, i, j, slots, marked, st, next))]

RECURSIVE CoincidenceLoop(_, _, _, _, _)
\* lines 154-161: for j, other_ghost in enumerate(self.visible_parts[i:])
CoincidenceLoop(st, spl, s, i, j) ==
    IF i + j >= Len(st.parts) THEN st
    ELSE CoincidenceLoop(
            IF two_ghost_coming_from_different_sides_of_splitter(
                   Part(st.parts, i), Part(st.parts, i + j), spl[s].splitterType)
            THEN MergeBranch(st, s, i, j)
            ELSE st,
            spl, s, i, j + 1)

\* lines 162-170: no coincidence, the part splits
SplitBranch(st, spl, s, i) ==
    LET this_ghost == Part(st.parts, i)
        added == add_visible_ghost(st, this_ghost.position,
                     SplitLastMove(this_ghost.last_move, spl[s].splitterType))
        next == [added EXCEPT !.qs = Split(st.qs, i)]
    IN  [next EXCEPT !.events =
             Append(st.events, Event("split", s, i, -1, <<i>>, {}, st, next))]

\* lines 150-170: the body of the loop over the parts
PartStep(st, spl, s, i, this_ghost) ==
    IF i \in st.seen THEN st
    ELSE IF ~allclose(spl[s].position, this_ghost.position) THEN st
    ELSE LET c == CoincidenceLoop([st EXCEPT !.is_coincidence = FALSE],
                                  spl, s, i, 0)
         IN  IF c.is_coincidence THEN c ELSE SplitBranch(c, spl, s, i)

RECURSIVE PartLoop(_, _, _, _, _)
\* line 149: for i, this_ghost in enumerate(self.visible_parts[:])
PartLoop(st, spl, s, copy, i) ==
    IF i >= Len(copy) THEN st
    ELSE PartLoop(PartStep(st, spl, s, i, Part(copy, i)), spl, s, copy, i + 1)

RECURSIVE SplitterLoop(_, _, _)
\* line 148: for splitter in self.splitters
SplitterLoop(st, spl, s) ==
    IF s > Len(spl) THEN st
    ELSE SplitterLoop(PartLoop(st, spl, s, st.parts, 0), spl, s + 1)

\* QGhost.interact_with_splitter
interact_with_splitter(parts, qs, render, spl) ==
    SplitterLoop([parts |-> parts, qs |-> qs, render |-> render, seen |-> {},
                  is_coincidence |-> FALSE, events |-> <<>>], spl, 1)

RECURSIVE AttackProb_absent(_, _, _, _)
\* the sum of p_not_here itself, not of 1 - p_not_here
AttackProb_absent(parts, qs, playerPosition, i) ==
    IF i >= Len(parts) THEN 0
    ELSE (IF is_in_attack_radius(playerPosition, Part(parts, i).position,
                                 GHOST_ATTACK_RADIUS)
          THEN p_not_here(qs, i)
          ELSE 0)
         + AttackProb_absent(parts, qs, playerPosition, i + 1)

RECURSIVE AttackProb(_, _, _, _)
\* lines 125-141: the sum of 1 - p_not_here over the parts in the radius
AttackProb(parts, qs, playerPosition, i) ==
    IF i >= Len(parts) THEN 0
    ELSE (IF is_in_attack_radius(playerPosition, Part(parts, i).position,
                                 GHOST_ATTACK_RADIUS)
          THEN ProbScale - p_not_here(qs, i)
          ELSE 0)
         + AttackProb(parts, qs, playerPosition, i + 1)

\* line 124: the attack happens at all
AttackChecked(roll1) == roll1 <= PROB_GHOST_ATTACK

\* line 142: the player is hit
AttackHits(roll2, attack_prob) == roll2 <= attack_prob

\* an attack that hits once for every part in the radius
attack_each_part(parts, qs, playerPosition, roll1, roll2, h, played) ==
    LET near == {i \in 0..(Len(parts) - 1) :
                    is_in_attack_radius(playerPosition, Part(parts, i).position,
                                        GHOST_ATTACK_RADIUS)}
    IN  IF AttackChecked(roll1)
               /\ AttackHits(roll2, AttackProb(parts, qs, playerPosition, 0))
        THEN [health |-> h - Cardinality(near), sounds |-> played + 1]
        ELSE [health |-> h, sounds |-> played]

\* QGhost.attack: the player's health and the sounds played after it
attack(parts, qs, playerPosition, roll1, roll2, h, played) ==
    IF AttackChecked(roll1)
           /\ AttackHits(roll2, AttackProb(parts, qs, playerPosition, 0))
    THEN [health |-> h - 1, sounds |-> played + 1]
    ELSE [health |-> h, sounds |-> played]

\* the guard of QGhost.update, one part too late
Degenerate_late(parts) == Len(parts) > MAX_GHOSTS_PER_STATE + 1

\* a guard that freezes the ghost only just above capacity
Degenerate_exact(parts) == Len(parts) = MAX_GHOSTS_PER_STATE + 1

\* line 180: the guard of QGhost.update
Degenerate(parts) == Len(parts) > MAX_GHOSTS_PER_STATE

\* Ghost.calculate_move_vector: "stay" or one of the four unit steps
calculate_move_vector(roll, key) ==
    IF roll < GHOST_SPEED THEN <<0, 0>> ELSE DIR_DICT[key]

\* a Ghost.update that keeps the selected vector
AppliedMove_selected(ghost, selected) == selected

\* Ghost.update, line 64: the vector that is applied
AppliedMove(ghost, selected) == ghost.last_move

----------------------------------------------------------------------------
(* The record of the last call                                             *)

NoCall ==
    [op |-> "init", part |-> -1, selected |-> <<0, 0>>, applied |-> <<0, 0>>,
     player |-> <<0, 0>>, roll1 |-> 0, roll2 |-> 0,
     pre_parts |-> <<>>, pre_qs |-> <<>>, pre_render |-> {},
     pre_health |-> 0, pre_sounds |-> 0,
     ran |-> FALSE, checked |-> FALSE, attack_prob |-> 0, events |-> <<>>]

----------------------------------------------------------------------------
(* Actions                                                                 *)

\* QGhost.__init__ with the position and the splitters of the level
Init ==
    \E spl \in SplitterLists, position \in StartPositions :
        LET st == add_visible_ghost([parts |-> <<>>, render |-> {}],
                                    position, NoVector)
        IN  /\ splitters = spl
            /\ visible_parts = st.parts
            /\ render_group = st.render
            /\ quantum_state = InitialState
            /\ health = MaxHealth
            /\ sounds = 0
            /\ moves = 0
            /\ last = NoCall

\* a test set-up: QGhost.__init__, then the last_move of the only part is
\* assigned (the scenario "starts with 1 part ... moving up")
InitSetup ==
    \E spl \in SplitterLists, position \in StartPositions,
       key \in DOMAIN DIR_DICT :
        LET st == add_visible_ghost([parts |-> <<>>, render |-> {}],
                                    position, NoVector)
        IN  /\ splitters = spl
            /\ visible_parts = [st.parts EXCEPT ![1].last_move = DIR_DICT[key]]
            /\ render_group = st.render
            /\ quantum_state = InitialState
            /\ health = MaxHealth
            /\ sounds = 0
            /\ moves = 0
            /\ last = NoCall

\* Ghost.update of the part at index i
GhostMove(i, roll, key) ==
    /\ moves < MaxMoves
    /\ i < Len(visible_parts)
    /\ LET ghost == Part(visible_parts, i)
           selected == calculate_move_vector(roll, key)
           moveVector == AppliedMove(ghost, selected)
           moved == [ghost EXCEPT
                        !.position = UnitUpdate(ghost.position, moveVector),
                        !.last_move = moveVector]
       IN  /\ visible_parts' = [visible_parts EXCEPT ![i + 1] = moved]
           /\ last' = [NoCall EXCEPT !.op = "move", !.part = i,
                                     !.selected = selected,
                                     !.applied = moveVector,
                                     !.pre_parts = visible_parts]
    /\ moves' = moves + 1
    /\ UNCHANGED <<splitters, quantum_state, render_group, health, sounds>>

\* QGhost.update(player)
QGhostUpdate(playerPosition, roll1, roll2) ==
    /\ health > 0
    /\ LET call == [NoCall EXCEPT !.op = "update", !.player = playerPosition,
                                  !.roll1 = roll1, !.roll2 = roll2,
                                  !.pre_parts = visible_parts,
                                  !.pre_qs = quantum_state,
                                  !.pre_render = render_group,
                                  !.pre_health = health,
                                  !.pre_sounds = sounds]
       IN  IF Degenerate(visible_parts)
           THEN /\ last' = call
                /\ UNCHANGED <<visible_parts, quantum_state, render_group,
                               health, sounds>>
           ELSE LET st == interact_with_splitter(visible_parts, quantum_state,
                                                 render_group, splitters)
                    attack_prob == AttackProb(st.parts, st.qs, playerPosition, 0)
                    after == attack(st.parts, st.qs, playerPosition, roll1, roll2,
                                    health, sounds)
                IN  /\ visible_parts' = st.parts
                    /\ quantum_state' = st.qs
                    /\ render_group' = st.render
                    /\ health' = after.health
                    /\ sounds' = after.sounds
                    /\ last' = [call EXCEPT !.ran = TRUE,
                                            !.checked = AttackChecked(roll1),
                                            !.attack_prob =
                                                IF AttackChecked(roll1)
                                                THEN attack_prob ELSE 0,
                                            !.events = st.events]
    /\ UNCHANGED <<splitters, moves>>

Next ==
    \/ \E i \in 0..(MaxParts - 1), roll \in SpeedDraws, key \in DOMAIN DIR_DICT :
           GhostMove(i, roll, key)
    \/ \E playerPosition \in PlayerPositions, roll1 \in Draws, roll2 \in Draws :
           QGhostUpdate(playerPosition, roll1, roll2)

Spec == Init /\ [][Next]_vars

SpecSetup == InitSetup /\ [][Next]_vars

----------------------------------------------------------------------------
(* Properties                                                              *)

\* the last call was QGhost.update
Updated == last.op = "update"

\* the events of the last interact_with_splitter pass, by kind
Splits == {n \in 1..Len(last.events) : last.events[n].kind = "split"}

Merges == {n \in 1..Len(last.events) : last.events[n].kind = "merge"}

OnTile(ghost, splitter) == ghost.position = splitter.position

AtSplitter(ghost, spl) == \E s \in 1..Len(spl) : OnTile(ghost, spl[s])

InRadius(ghost, playerPosition) ==
    (ghost.position[1] - playerPosition[1]) * (ghost.position[1] - playerPosition[1])
    + (ghost.position[2] - playerPosition[2]) * (ghost.position[2] - playerPosition[2])
        <= GHOST_ATTACK_RADIUS * GHOST_ATTACK_RADIUS

\* C1: in every reachable state the ghost has at most MAX_GHOSTS_PER_STATE
\* visible parts (no Split happens at full capacity).
C1_PartsWithinCapacity == Len(visible_parts) <= MAX_GHOSTS_PER_STATE

\* C2: an update called with more than MAX_GHOSTS_PER_STATE visible parts
\* changes nothing: no splitter interaction (no event, same parts, same
\* quantum state, same render group) and no attack (same health, no sound).
C2_DegenerateUpdateIsNoOp ==
    (Updated /\ Len(last.pre_parts) > MAX_GHOSTS_PER_STATE) =>
        /\ visible_parts = last.pre_parts
        /\ quantum_state = last.pre_qs
        /\ render_group = last.pre_render
        /\ health = last.pre_health
        /\ sounds = last.pre_sounds
        /\ last.events = <<>>

\* an over-capacity update with a part on a splitter next to the player and
\* both draws 0.0: every effect of a normal update would show
C2_Witness ==
    /\ Updated
    /\ Len(last.pre_parts) > MAX_GHOSTS_PER_STATE
    /\ last.roll1 = 0 /\ last.roll2 = 0
    /\ \E n \in 1..Len(visible_parts) :
           /\ AtSplitter(visible_parts[n], splitters)
           /\ InRadius(visible_parts[n], last.player)

\* C3: every Merge of a pass leaves fewer visible parts than it found.
C3_MergeRemovesParts ==
    \A n \in Merges :
        Len(last.events[n].parts_after) < Len(last.events[n].parts_before)

\* the parts the loop of splitter s runs over: those before the pass and
\* those spawned at the earlier splitters
CopyLen(s) ==
    Len(last.pre_parts)
    + Cardinality({n \in Splits : last.events[n].splitter < s})

\* the indices marked seen before part i is handled at splitter s
SeenBefore(s, i) ==
    UNION {{last.events[n].i, last.events[n].i + last.events[n].j} :
              n \in {m \in Merges :
                        \/ last.events[m].splitter < s
                        \/ last.events[m].splitter = s /\ last.events[m].i < i}}

EventsOf(kinds, s, i) ==
    {n \in kinds : last.events[n].splitter = s /\ last.events[n].i = i}

\* C4: every Split appends exactly one new part, registers it with the render
\* group and leaves the existing parts as they were; and every part that is
\* on a splitter's tile, not yet seen, and for which no coincidence was found
\* is split exactly once at that splitter.
C4_SplitSpawnsOnePart ==
    /\ \A n \in Splits :
           LET e == last.events[n]
               k == Len(e.parts_before)
           IN  /\ Len(e.parts_after) = k + 1
               /\ SubSeq(e.parts_after, 1, k) = e.parts_before
               /\ e.parts_after[k + 1].id \notin e.render_before
               /\ e.render_after = e.render_before \cup {e.parts_after[k + 1].id}
    /\ (Updated /\ last.ran) =>
           \A s \in 1..Len(splitters) : \A i \in 0..(CopyLen(s) - 1) :
               ( /\ OnTile(visible_parts[i + 1], splitters[s])
                 /\ i \notin SeenBefore(s, i)
                 /\ EventsOf(Merges, s, i) = {} )
               => Cardinality(EventsOf(Splits, s, i)) = 1

\* a pass with two Splits, the second one with two parts already there
C4_Witness ==
    /\ Updated /\ last.ran
    /\ \E n \in Splits : Len(last.events[n].parts_before) >= 2
    /\ Cardinality(Splits) >= 2

\* C5: the new part of a Split stands where the splitting part stands, and
\* its last_move is (y, x) for a splitting part with last_move (x, y), negated
\* at a "45" splitter; a ghost with one part moving (0, 1) on the tile of its
\* only splitter, a "45" one, has two parts after the pass, the new one
\* moving (-1, 0).
C5_SplitDirection ==
    /\ \A n \in Splits :
           LET e == last.events[n]
               this == e.parts_before[e.i + 1]
               new == e.parts_after[Len(e.parts_after)]
               x == this.last_move[1]
               y == this.last_move[2]
           IN  /\ new.position = this.position
               /\ new.last_move =
                      IF splitters[e.splitter].splitterType = "45"
                      THEN <<-y, -x>> ELSE <<y, x>>
    /\ ( /\ Updated /\ last.ran
         /\ Len(last.pre_parts) = 1
         /\ last.pre_parts[1].last_move = <<0, 1>>
         /\ Len(splitters) = 1
         /\ splitters[1].splitterType = "45"
         /\ OnTile(last.pre_parts[1], splitters[1]) )
       => /\ Len(visible_parts) = 2
          /\ visible_parts[2].last_move = <<-1, 0>>
          /\ visible_parts[2].position = visible_parts[1].position

\* the scenario: one part moving up on a "45" splitter, after one pass
C5_Witness ==
    /\ Updated /\ last.ran
    /\ Len(last.pre_parts) = 1
    /\ last.pre_parts[1].last_move = <<0, 1>>
    /\ Len(splitters) = 1
    /\ splitters[1].splitterType = "45"
    /\ OnTile(last.pre_parts[1], splitters[1])
    /\ Cardinality(Splits) = 1

\* C6: a Split of part i directly followed by a Merge of part i with the part
\* the Split spawned gives back the length of visible_parts and the quantum
\* state from before the Split.
C6_SplitThenMergeRoundTrip ==
    \A n \in 1..(Len(last.events) - 1) :
        LET split == last.events[n]
            merge == last.events[n + 1]
        IN  ( /\ split.kind = "split"
              /\ merge.kind = "merge"
              /\ merge.i = split.i
              /\ merge.i + merge.j = Len(split.parts_before) )
            => /\ Len(merge.parts_after) = Len(split.parts_before)
               /\ merge.qs_after = split.qs_before

\* C7: between the calls the ghost has as many visible parts as its quantum
\* state has allocated slots.
C7_PartsMatchSlots == Len(visible_parts) = Len(quantum_state)

\* C8: one update takes 0 or 1 off player.health and plays the attack sound
\* once exactly when it took 1.
C8_OneAttackPerUpdate ==
    Updated =>
        /\ health \in {last.pre_health, last.pre_health - 1}
        /\ sounds - last.pre_sounds = last.pre_health - health

\* an update that hit the player with two parts or more in the radius
C8_Witness ==
    /\ Updated
    /\ health = last.pre_health - 1
    /\ Cardinality({n \in 1..Len(visible_parts) :
                       InRadius(visible_parts[n], last.player)}) >= 2

\* C9: the player is hit only when the second draw is strictly below the
\* aggregate probability; with no part in the radius nothing happens.
C9_HitOnlyBelowProbability ==
    (Updated /\ last.ran) =>
        /\ health < last.pre_health => last.roll2 < last.attack_prob
        /\ (\A n \in 1..Len(visible_parts) :
                ~InRadius(visible_parts[n], last.player))
           => health = last.pre_health /\ sounds = last.pre_sounds

\* the whole amplitude is in slot i
Localized(qs, i) ==
    /\ i < Len(qs)
    /\ \A k \in 0..(Len(qs) - 1) :
           qs[k + 1] = IF k = i THEN AmpOne ELSE AmpZero

\* C10: when the attack-check roll passes and a part in the radius carries
\* presence probability 1, the player loses exactly 1 health and the sound is
\* played exactly once, whatever the second draw.
C10_CertainAttack ==
    ( /\ Updated /\ last.ran
      /\ last.roll1 <= PROB_GHOST_ATTACK
      /\ \E i \in 0..(Len(visible_parts) - 1) :
             /\ InRadius(visible_parts[i + 1], last.player)
             /\ Localized(quantum_state, i) )
    => /\ health = last.pre_health - 1
       /\ sounds = last.pre_sounds + 1

\* a never-split single part next to the player, the largest second draw
C10_Witness ==
    /\ Updated /\ last.ran
    /\ last.roll1 <= PROB_GHOST_ATTACK
    /\ last.roll2 = 99
    /\ Len(visible_parts) = 1
    /\ InRadius(visible_parts[1], last.player)
    /\ Localized(quantum_state, 0)

RECURSIVE NormSqRational(_, _)
\* the squared norm of qs is (NormSqRational + NormSqIrrational * sqrt(2))
\* in units of 1 / AmpScale^2
NormSqRational(qs, k) ==
    IF k > Len(qs) THEN 0
    ELSE qs[k][1] * qs[k][1] + 2 * qs[k][2] * qs[k][2] + NormSqRational(qs, k + 1)

RECURSIVE NormSqIrrational(_, _)
NormSqIrrational(qs, k) ==
    IF k > Len(qs) THEN 0
    ELSE 2 * qs[k][1] * qs[k][2] + NormSqIrrational(qs, k + 1)

C12_MergeOnCoincidentSlots ==
    \A n \in Merges :
        {last.events[n].slots[1], last.events[n].slots[2]} = last.events[n].marked

\* C13: both parts of a Merge stand on the tile of the splitter and neither
\* was marked seen before it.
C13_MergeOnlyUnseenPartsOnTile ==
    \A n \in Merges :
        LET e == last.events[n]
            k == e.i + e.j
        IN  /\ OnTile(e.parts_before[e.i + 1], splitters[e.splitter])
            /\ OnTile(e.parts_before[k + 1], splitters[e.splitter])
            /\ e.i \notin e.seen_before
            /\ k \notin e.seen_before

\* the events of the last pass that handled the part at index x
EventsWith(x) ==
    {n \in 1..Len(last.events) :
        \/ last.events[n].i = x
        \/ last.events[n].kind = "merge"
               /\ last.events[n].i + last.events[n].j = x}

\* C14: in one pass every part takes part in at most one Split or Merge, and
\* the parts are handled in increasing index order.
C14_EachPartOncePerPass ==
    /\ \A x \in 0..(Len(visible_parts) - 1) : Cardinality(EventsWith(x)) <= 1
    /\ \A n \in 1..Len(last.events) : \A m \in 1..Len(last.events) :
           n < m => last.events[n].i <= last.events[m].i

\* the four unit cardinal steps
Cardinals == {DIR_DICT[key] : key \in DOMAIN DIR_DICT}

\* C15: the move Ghost.update applies is the vector calculate_move_vector
\* selected, (0,0) or a unit cardinal step, and the part's last_move after the
\* update is that vector.
C15_AppliedMoveIsSelected ==
    last.op = "move" =>
        /\ last.selected \in Cardinals \cup {<<0, 0>>}
        /\ last.applied = last.selected
        /\ Part(visible_parts, last.part).last_move = last.selected

\* C16: a part is split or merged at a splitter only if its position is
\* within 0.01 of the splitter's in each coordinate, which for integer cells
\* means on the splitter's cell.
C16_InteractOnlyOnSplitterCell ==
    \A n \in 1..Len(last.events) :
        LET e == last.events[n]
        IN  OnTile(Part(e.parts_before, e.i), splitters[e.splitter])

\* C17: the number of visible parts never decreases, and once it is above
\* MAX_GHOSTS_PER_STATE no later step adds a part, changes the quantum state,
\* the render group or player.health, or plays a sound.
C17_OverCapacityIsAbsorbing ==
    [][/\ Len(visible_parts') >= Len(visible_parts)
       /\ Len(visible_parts) > MAX_GHOSTS_PER_STATE =>
              /\ Len(visible_parts') = Len(visible_parts)
              /\ quantum_state' = quantum_state
              /\ render_group' = render_group
              /\ health' = health
              /\ sounds' = sounds]_vars

\* an update of a frozen ghost after MaxMoves moves of its parts: one part
\* stands on a splitter within the radius of the player, another is off every
\* splitter, and both draws are 0.0
C17_Witness ==
    /\ Updated
    /\ Len(last.pre_parts) > MAX_GHOSTS_PER_STATE
    /\ moves = MaxMoves
    /\ last.roll1 = 0
    /\ last.roll2 = 0
    /\ \E i \in 0..(Len(visible_parts) - 1) :
           /\ AtSplitter(Part(visible_parts, i), splitters)
           /\ InRadius(Part(visible_parts, i), last.player)
    /\ \E i \in 0..(Len(visible_parts) - 1) :
           ~AtSplitter(Part(visible_parts, i), splitters)

\* C18: the last_move of every visible part is one of the four unit cardinal
\* vectors, and Ghost.update leaves the last_move of the part it moves as it
\* was.
C18_LastMoveIsCardinal ==
    /\ \A i \in 0..(Len(visible_parts) - 1) :
           Part(visible_parts, i).last_move \in Cardinals
    /\ last.op = "move" =>
           Part(visible_parts, last.part).last_move
               = Part(last.pre_parts, last.part).last_move

\* Ghost.update of a part spawned by a Split when (0,0) was selected, with
\* parts of different last_move present
C18_Witness ==
    /\ last.op = "move"
    /\ last.part >= 1
    /\ last.selected = <<0, 0>>
    /\ \E i \in 0..(Len(visible_parts) - 1) :
           Part(visible_parts, i).last_move # Part(visible_parts, last.part).last_move

====
